---- MODULE Spec2Model ----
(***************************************************************************)
(* A model of load_data_sets.py (MuGo): the chunked binary data set file   *)
(* format (DataSet.write / DataSet.read with the three packings and the    *)
(* four compressions), the batching cursor of DataSet.get_batch, and the   *)
(* test/training split of split_test_training.                             *)
(*                                                                         *)
(* Three specifications share the variables:                               *)
(*   SpecIO     one DataSet, written to and read back from one file        *)
(*   SpecBatch  one DataSet, drawn from by get_batch                       *)
(*   SpecSplit  one example stream, split by split_test_training           *)
(*                                                                         *)
(* Numbers are numpy elements: a float32 or an int16 element is modelled   *)
(* by its numeric value and is converted to and from its bytes (IEEE 754   *)
(* single precision, two's complement), least significant byte first, as   *)
(* on the little-endian hosts the program runs on.                         *)
(***************************************************************************)
EXTENDS Integers, Sequences, FiniteSets

VARIABLES
    ds,                  \* the DataSet object (fields of DataSet.__init__)
    orig,                \* the same DataSet as it was constructed
    disk,                \* the bytes of the file `filename`, or NoFile
    written,             \* how `disk` came about: compression, packing, extra bytes
    out,                 \* the outcome of the last call
    positions_w_context, \* the examples the stream yields, in order
    it,                  \* how many examples the stream's iterator has yielded
    est_num_positions,   \* the estimate passed to split_test_training
    test_chunk,          \* the test set split_test_training returned
    training_chunks,     \* the training groups produced so far, in order
    pc                   \* where the split is: "start", "chunks", "done"

vars == <<ds, orig, disk, written, out, positions_w_context, it,
          est_num_positions, test_chunk, training_chunks, pc>>

ioVars == <<disk, written>>
splitVars == <<positions_w_context, it, est_num_positions, test_chunk,
               training_chunks, pc>>

(***************************************************************************)
(* Bounds of the model.                                                    *)
(***************************************************************************)
\* rows of a one-point board (board_size 1, one plane) in SpecIO
MaxRows == 13
\* bytes another writer may append to the uncompressed stream of the file
MaxExtra == 1
\* rows of a DataSet in SpecBatch
MaxBatchRows == 4
\* stream lengths 0..MaxSmallLen are all tried in SpecSplit
MaxSmallLen == 12
\* streams of up to this many whole training chunks after the test set
MaxChunks == 2

(***************************************************************************)
(* Program constants.                                                      *)
(***************************************************************************)
CHUNK_SIZE == 4096
\* struct.calcsize("iii?"): three 4-byte ints and one bool, no padding
CHUNK_HEADER_SIZE == 4 + 4 + 4 + 1
desired_test_size == 10^5

Compressions == {"none", "gzip6", "gzip9", "snappy"}
Packings == {"none", "half", "full"}
\* the option strings a caller passes: the known ones and an unknown one
CompressionArgs == Compressions \cup {"lz4"}
PackingArgs == Packings \cup {"quarter"}

NoFile == <<"no file">>
NoCall == [op |-> "none"]

Min(a, b) == IF a < b THEN a ELSE b

(***************************************************************************)
(* Bytes.                                                                  *)
(***************************************************************************)
RECURSIVE Concat(_)
\* the rows of an array one after another (C order): ndarray.tostring / ravel
Concat(rows) ==
    IF Len(rows) = 0 THEN <<>>
    ELSE IF Len(rows) = 1 THEN rows[1]
    ELSE Concat(SubSeq(rows, 1, Len(rows) \div 2))
           \o Concat(SubSeq(rows, (Len(rows) \div 2) + 1, Len(rows)))

\* struct "i": a signed 32-bit int, least significant byte first
I32Bytes(v) ==
    << v % 256, (v \div 256) % 256, (v \div 65536) % 256, (v \div 16777216) % 256 >>

I32Value(b) ==
    b[1] + 256 * b[2] + 65536 * b[3]
      + 16777216 * (IF b[4] >= 128 THEN b[4] - 256 ELSE b[4])

\* numpy int16 element
I16Bytes(v) == << v % 256, (v \div 256) % 256 >>

I16Value(b) == b[1] + 256 * (IF b[2] >= 128 THEN b[2] - 256 ELSE b[2])

RECURSIVE Log2(_)
Log2(n) == IF n < 2 THEN 0 ELSE 1 + Log2(n \div 2)

Abs(v) == IF v < 0 THEN -v ELSE v

\* numpy float32 element holding the integer v (|v| < 2^24): IEEE 754 single
F32Bytes(v) ==
    IF v = 0 THEN <<0, 0, 0, 0>>
    ELSE LET e    == Log2(Abs(v))
             expo == 127 + e
             mant == (Abs(v) - 2^e) * 2^(23 - e)
             sign == IF v < 0 THEN 1 ELSE 0
         IN  << mant % 256,
                (mant \div 256) % 256,
                (expo % 2) * 128 + (mant \div 65536),
                sign * 128 + (expo \div 2) >>

\* the value of four bytes read as a float32; a value that is no integer is
\* kept as its bit pattern
F32Value(b) ==
    LET sign == b[4] \div 128
        expo == (b[4] % 128) * 2 + (b[3] \div 128)
        mant == (b[3] % 128) * 65536 + b[2] * 256 + b[1]
        sig  == 8388608 + mant
    IN  IF expo = 0 /\ mant = 0 THEN 0
        ELSE IF expo >= 127 /\ expo <= 150 /\ sig % (2^(150 - expo)) = 0
             THEN (IF sign = 1 THEN -1 ELSE 1) * (sig \div 2^(150 - expo))
             ELSE [f32bits |-> b]

ElemBytes(dtype, v) ==
    CASE dtype = "float32" -> F32Bytes(v)
      [] dtype = "int16"   -> I16Bytes(v)
      [] dtype = "uint8"   -> <<v % 256>>
      [] dtype = "bool"    -> <<IF v THEN 1 ELSE 0>>

ItemSize(dtype) ==
    CASE dtype = "float32" -> 4
      [] dtype = "int16"   -> 2
      [] dtype = "uint8"   -> 1
      [] dtype = "bool"    -> 1

\* ndarray.tostring(): the elements' bytes in C order
tostring(dtype, flat) ==
    Concat([i \in 1..Len(flat) |-> ElemBytes(dtype, flat[i])])

Take(s, n) == SubSeq(s, 1, Min(n, Len(s)))
Drop(s, n) == SubSeq(s, Min(n, Len(s)) + 1, Len(s))

\* np.fromstring(bytes, dtype): fails unless the bytes are whole elements
fromstring(bytes, dtype) ==
    IF Len(bytes) % ItemSize(dtype) # 0
    THEN [ok |-> FALSE, flat |-> <<>>]
    ELSE [ok |-> TRUE,
          flat |-> [i \in 1..(Len(bytes) \div ItemSize(dtype)) |->
                      LET b == SubSeq(bytes, (i - 1) * ItemSize(dtype) + 1,
                                      i * ItemSize(dtype))
                      IN  CASE dtype = "float32" -> F32Value(b)
                            [] dtype = "int16"   -> I16Value(b)
                            [] dtype = "uint8"   -> b[1]]]

\* a packbits that puts the first element in the least significant bit
packbits_littleBitOrder(mask) ==
    [k \in 1..((Len(mask) + 7) \div 8) |->
        LET bit(j) == IF 8 * (k - 1) + j <= Len(mask) /\ mask[8 * (k - 1) + j]
                      THEN 1 ELSE 0
        IN  bit(1) + 2 * bit(2) + 4 * bit(3) + 8 * bit(4)
              + 16 * bit(5) + 32 * bit(6) + 64 * bit(7) + 128 * bit(8)]

\* np.packbits of a boolean array: 8 elements a byte, first element in the
\* most significant bit, the last byte padded with zero bits
packbits(mask) ==
    [k \in 1..((Len(mask) + 7) \div 8) |->
        LET bit(j) == IF 8 * (k - 1) + j <= Len(mask) /\ mask[8 * (k - 1) + j]
                      THEN 1 ELSE 0
        IN  128 * bit(1) + 64 * bit(2) + 32 * bit(3) + 16 * bit(4)
              + 8 * bit(5) + 4 * bit(6) + 2 * bit(7) + bit(8)]

\* np.unpackbits of a uint8 array: 8 elements (0 or 1) for every byte
unpackbits(bytes) ==
    [i \in 1..(8 * Len(bytes)) |->
        (bytes[((i - 1) \div 8) + 1] \div (2^(7 - ((i - 1) % 8)))) % 2]

\* a reader that keeps the padding bits of the last byte
Truncated_keepsPadding(flat, n) == flat

\* nparray[:n] of a flat array
Truncated(flat, n) == Take(flat, n)

(***************************************************************************)
(* The packing strategies.  An array is [dtype, rows]; rows are flat.      *)
(***************************************************************************)
Flat(nparray) == Concat(nparray.rows)

nopack(nparray) == tostring(nparray.dtype, Flat(nparray))

halfpack(nparray) ==
    tostring("bool", [i \in 1..Len(Flat(nparray)) |-> Flat(nparray)[i] = 1])

fullpack(nparray) ==
    tostring("uint8",
             packbits([i \in 1..Len(Flat(nparray)) |-> Flat(nparray)[i] = 1]))

pack_strategy(packing, nparray) ==
    CASE packing = "none" -> nopack(nparray)
      [] packing = "half" -> halfpack(nparray)
      [] packing = "full" -> fullpack(nparray)

(***************************************************************************)
(* The compression containers.  The deflate and snappy codings themselves  *)
(* are the libraries'; a container is modelled by its framing: magic       *)
(* bytes, the content, and a trailer or chunk header that lets the reader  *)
(* reject a stream that is not whole.                                      *)
(***************************************************************************)
RECURSIVE ByteSum(_)
ByteSum(bytes) ==
    IF Len(bytes) = 0 THEN 0
    ELSE IF Len(bytes) = 1 THEN bytes[1]
    ELSE ByteSum(SubSeq(bytes, 1, Len(bytes) \div 2))
           + ByteSum(SubSeq(bytes, (Len(bytes) \div 2) + 1, Len(bytes)))

GzipMagic == <<31, 139, 8, 0>>

\* gzip.open(filename, 'wb', compresslevel=level).write(data): the header
\* (its XFL byte is 2 at level 9), the content, check sum and length
GzipCompress(level, data) ==
    GzipMagic \o <<IF level = 9 THEN 2 ELSE 0>> \o data
        \o I32Bytes(ByteSum(data)) \o I32Bytes(Len(data))

\* gzip.open(filename, 'rb').read(): any level is read alike
GzipDecompress(bytes) ==
    IF Len(bytes) < 13 \/ Take(bytes, 4) # GzipMagic
    THEN [ok |-> FALSE, data |-> <<>>]
    ELSE LET data == SubSeq(bytes, 6, Len(bytes) - 8)
             sum  == SubSeq(bytes, Len(bytes) - 7, Len(bytes) - 4)
             size == SubSeq(bytes, Len(bytes) - 3, Len(bytes))
         IN  IF I32Value(size) = Len(data) /\ I32Value(sum) = ByteSum(data)
             THEN [ok |-> TRUE, data |-> data]
             ELSE [ok |-> FALSE, data |-> <<>>]

SnappyStreamId == <<255, 6, 0, 0, 115, 78, 97, 80, 112, 89>>

\* snappy.stream_compress(src, dst): the stream identifier, then one chunk
\* (type, 3-byte length, check sum, content)
stream_compress(data) ==
    SnappyStreamId \o
      (IF data = <<>> THEN <<>>
       ELSE <<1>> \o Take(I32Bytes(Len(data) + 4), 3)
              \o I32Bytes(ByteSum(data)) \o data)

stream_decompress(bytes) ==
    IF Take(bytes, 10) # SnappyStreamId
    THEN [ok |-> FALSE, data |-> <<>>]
    ELSE LET chunk == Drop(bytes, 10)
         IN  IF chunk = <<>> THEN [ok |-> TRUE, data |-> <<>>]
             ELSE IF Len(chunk) < 8 \/ chunk[1] # 1
                     \/ I32Value(SubSeq(chunk, 2, 4) \o <<0>>) # Len(chunk) - 4
                     \/ I32Value(SubSeq(chunk, 5, 8)) # ByteSum(Drop(chunk, 8))
                  THEN [ok |-> FALSE, data |-> <<>>]
                  ELSE [ok |-> TRUE, data |-> Drop(chunk, 8)]

(***************************************************************************)
(* DataSet.                                                                *)
(***************************************************************************)
\* DataSet.__init__: the shape fields are read off pos_features
DataSet(pos_features, next_moves, results, is_test) ==
    [pos_features       |-> pos_features,
     next_moves         |-> next_moves,
     results            |-> results,
     is_test            |-> is_test,
     data_size          |-> pos_features.shape[1],
     board_size         |-> pos_features.shape[2],
     input_planes       |-> pos_features.shape[Len(pos_features.shape)],
     index_within_epoch |-> 0]

RECURSIVE Product(_)
Product(shape) ==
    IF shape = <<>> THEN 1 ELSE Head(shape) * Product(Tail(shape))

\* an array of the given shape, held as shape[1] flat rows; element k (in C
\* order) is taken from the repeating pattern pat
Array(dtype, shape, pat) ==
    LET width == Product(Tail(shape))
    IN  [dtype |-> dtype,
         shape |-> shape,
         rows  |-> [r \in 1..shape[1] |->
                      [c \in 1..width |->
                          pat[(((r - 1) * width + c - 1) % Len(pat)) + 1]]]]

\* flat.reshape(n, ...): n rows of `width` elements; fails on any other size
reshape(flat, n, width) ==
    IF Len(flat) # n * width
    THEN [ok |-> FALSE, rows |-> <<>>]
    ELSE [ok |-> TRUE,
          rows |-> [r \in 1..n |-> SubSeq(flat, (r - 1) * width + 1, r * width)]]

\* struct.pack("iii?", data_size, board_size, input_planes, is_test)
header_bytes(d) ==
    I32Bytes(d.data_size) \o I32Bytes(d.board_size) \o I32Bytes(d.input_planes)
        \o <<IF d.is_test THEN 1 ELSE 0>>

\* the bytes write hands to the file object: header, features, labels
PlainBytes(d, packing) ==
    header_bytes(d) \o pack_strategy(packing, d.pos_features)
                    \o pack_strategy(packing, d.next_moves)

\* the file object's write side, by compression
Wrap(compression, plain) ==
    CASE compression = "none"   -> plain
      [] compression = "gzip6"  -> GzipCompress(6, plain)
      [] compression = "gzip9"  -> GzipCompress(9, plain)
      [] compression = "snappy" -> stream_compress(plain)

\* DataSet.write: the outcome and the file afterwards.  An unknown packing
\* is a KeyError of the strategy table; an unknown compression matches no
\* branch of the if/elif chain, which has no else
write(d, file, compression, packing) ==
    IF packing \notin Packings
    THEN [status |-> "error", kind |-> "KeyError", file |-> file]
    ELSE IF compression \in Compressions
         THEN [status |-> "ok", kind |-> "",
               file |-> Wrap(compression, PlainBytes(d, packing))]
         ELSE [status |-> "ok", kind |-> "", file |-> file]

NoDataSet == <<"no DataSet">>

Failed(kind) == [status |-> "error", kind |-> kind, ds |-> NoDataSet]

\* a reader that does not look for bytes left over
CleanlyFinished_unchecked(rest) == TRUE

\* line 199: the assertion that nothing is left to read
CleanlyFinished(rest) == Len(rest) = 0

\* DataSet.read from line 179 on: the uncompressed stream `plain` is read
\* through the file object f
read_stream(plain, packing) ==
    IF Len(plain) < CHUNK_HEADER_SIZE THEN Failed("struct.error")
    ELSE
    LET hdr            == Take(plain, CHUNK_HEADER_SIZE)
        data_size      == I32Value(SubSeq(hdr, 1, 4))
        board_size     == I32Value(SubSeq(hdr, 5, 8))
        input_planes   == I32Value(SubSeq(hdr, 9, 12))
        is_test        == hdr[13] # 0
        position_dims  == data_size * board_size * board_size * input_planes
        next_move_dims == data_size * board_size * board_size
        body           == Drop(plain, CHUNK_HEADER_SIZE)
        n1 == CASE packing = "none" -> position_dims * 4
                [] packing = "half" -> position_dims
                [] packing = "full" -> (position_dims + 7) \div 8
                [] OTHER -> 0
        n2 == CASE packing = "none" -> next_move_dims * 2
                [] packing = "half" -> next_move_dims
                [] packing = "full" -> (next_move_dims + 7) \div 8
                [] OTHER -> 0
        bytes1 == Take(body, n1)
        bytes2 == Take(Drop(body, n1), n2)
        rest   == Drop(Drop(body, n1), n2)
        a1 == fromstring(bytes1, IF packing = "none" THEN "float32" ELSE "uint8")
        a2 == fromstring(bytes2, IF packing = "none" THEN "int16" ELSE "uint8")
        flat_position  == IF packing = "full"
                          THEN Truncated(unpackbits(a1.flat), position_dims)
                          ELSE a1.flat
        flat_nextmoves == IF packing = "full"
                          THEN Truncated(unpackbits(a2.flat), next_move_dims)
                          ELSE a2.flat
        pos_features == reshape(flat_position, data_size,
                                board_size * board_size * input_planes)
        next_moves   == reshape(flat_nextmoves, data_size, board_size * board_size)
    IN  IF packing \in Packings /\ ~a1.ok THEN Failed("ValueError")
        ELSE IF packing \in Packings /\ ~a2.ok THEN Failed("ValueError")
        ELSE IF ~CleanlyFinished(rest) THEN Failed("AssertionError")
        ELSE IF packing \notin Packings THEN Failed("UnboundLocalError")
        ELSE IF ~pos_features.ok \/ ~next_moves.ok THEN Failed("ValueError")
        ELSE [status |-> "ok", kind |-> "",
              ds |-> DataSet(
                  [dtype |-> IF packing = "full" THEN "uint8" ELSE "float32",
                   shape |-> <<data_size, board_size, board_size, input_planes>>,
                   rows  |-> pos_features.rows],
                  [dtype |-> IF packing = "full" THEN "uint8" ELSE "int16",
                   shape |-> <<data_size, board_size * board_size>>,
                   rows  |-> next_moves.rows],
                  <<>>, is_test)]

\* DataSet.read, lines 169-177: open the file by compression
read(file, compression, packing) ==
    IF compression \notin Compressions THEN Failed("UnboundLocalError")
    ELSE IF file = NoFile THEN Failed("FileNotFoundError")
    ELSE IF compression = "none" THEN read_stream(file, packing)
    ELSE LET f == IF compression = "snappy" THEN stream_decompress(file)
                  ELSE GzipDecompress(file)
         IN  IF f.ok THEN read_stream(f.data, packing)
             ELSE Failed(IF compression = "snappy" THEN "UncompressError"
                         ELSE "OSError")

(***************************************************************************)
(* SpecIO: a DataSet, its file, and the calls of write and read.           *)
(***************************************************************************)
\* [data_size, board_size, input_planes]: every row count of a one-point
\* board (so that every element count up to MaxRows occurs), and 2x2 boards
IOShapes ==
    {<<n, 1, 1>> : n \in 1..MaxRows} \cup {<<3, 2, 1>>, <<1, 2, 2>>}

\* the repeating patterns of feature and of label elements: 0 and 1, and
\* the values 2 and -1 that are neither
FeaturePatterns == {<<0, 1>>, <<1, 1>>, <<1, 2>>, <<2, 0>>}
LabelPatterns == {<<1, 0>>, <<0, 1>>, <<1, -1>>}
ExtraBytes == {255}

NoWrite == [compression |-> "", packing |-> "", extra |-> 0]

IdleSplit ==
    /\ positions_w_context = <<>>
    /\ it = 0
    /\ est_num_positions = 0
    /\ test_chunk = <<>>
    /\ training_chunks = <<>>
    /\ pc = "idle"

InitIO ==
    /\ \E s \in IOShapes, fp \in FeaturePatterns, lp \in LabelPatterns,
          t \in BOOLEAN :
         ds = DataSet(Array("float32", <<s[1], s[2], s[2], s[3]>>, fp),
                      Array("int16", <<s[1], s[2] * s[2]>>, lp),
                      [i \in 1..s[1] |-> 1], t)
    /\ orig = ds
    /\ disk = NoFile
    /\ written = NoWrite
    /\ out = NoCall
    /\ IdleSplit

\* ds.write(filename, compression, packing); a DataSet is written once
Write ==
    /\ disk = NoFile
    /\ \E compression \in CompressionArgs, packing \in PackingArgs :
         LET r == write(ds, disk, compression, packing)
         IN  /\ disk' = r.file
             /\ written' = IF r.file = disk THEN written
                           ELSE [compression |-> compression,
                                 packing |-> packing, extra |-> 0]
             /\ out' = [op |-> "write", compression |-> compression,
                        packing |-> packing, status |-> r.status,
                        kind |-> r.kind, ds |-> NoDataSet]
    /\ UNCHANGED <<ds, orig, splitVars>>

\* the uncompressed stream of the file
Unwrap(compression, file) ==
    CASE compression = "none"   -> file
      [] compression = "snappy" -> stream_decompress(file).data
      [] OTHER                  -> GzipDecompress(file).data

\* another writer leaves a file whose uncompressed stream has one more byte
\* at its end
AppendByte ==
    /\ disk # NoFile
    /\ written.extra < MaxExtra
    /\ \E b \in ExtraBytes :
         disk' = Wrap(written.compression,
                      Unwrap(written.compression, disk) \o <<b>>)
    /\ written' = [written EXCEPT !.extra = @ + 1]
    /\ out' = NoCall
    /\ UNCHANGED <<ds, orig, splitVars>>

\* DataSet.read(filename, compression, packing).  Reading a compressed file
\* with compression 'none' is left out: what it reads are the bytes of the
\* deflate or snappy coding, which the containers above do not model.  read
\* changes nothing but its own outcome, so every outcome of a second read is
\* already the outcome of a first one: one read per run
Read ==
    /\ disk # NoFile
    /\ out.op # "read"
    /\ \E compression \in CompressionArgs, packing \in PackingArgs :
         /\ ~(compression = "none" /\ written.compression # "none")
         /\ LET r == read(disk, compression, packing)
            IN  out' = [op |-> "read", compression |-> compression,
                        packing |-> packing, status |-> r.status,
                        kind |-> r.kind, ds |-> r.ds]
    /\ UNCHANGED <<ds, orig, ioVars, splitVars>>

NextIO == Write \/ AppendByte \/ Read

SpecIO == InitIO /\ [][NextIO]_vars

(***************************************************************************)
(* SpecBatch: a DataSet and the calls of get_batch.                        *)
(***************************************************************************)
RECURSIVE Orders(_)
\* the sequences that hold every element of S once
Orders(S) ==
    IF S = {} THEN {<<>>}
    ELSE UNION {{<<x>> \o rest : rest \in Orders(S \ {x})} : x \in S}

\* the orders np.random.shuffle can leave np.arange(n) in: all of them
Permutations(n) == Orders(1..n)

\* nparray[perm]: row i of the result is row perm[i]
Reindex(nparray, perm) ==
    [nparray EXCEPT !.rows = [i \in 1..Len(nparray.rows) |-> nparray.rows[perm[i]]]]

\* nparray[start:end] for 0 <= start: the rows the bounds leave
Slice(nparray, start, end) ==
    SubSeq(nparray.rows, start + 1, Min(end, Len(nparray.rows)))

\* a cursor check that also reshuffles when the batch ends at the last row
NeedsShuffle_atEnd(d, batch_size) ==
    d.index_within_epoch + batch_size >= d.data_size

\* the condition of line 116
NeedsShuffle(d, batch_size) ==
    d.index_within_epoch + batch_size > d.data_size

\* a shuffle that leaves the labels in their old order
Shuffled_featuresOnly(d, perm) ==
    [d EXCEPT !.pos_features = Reindex(d.pos_features, perm),
              !.index_within_epoch = 0]

\* lines 117-122: both arrays are indexed by the one permutation
Shuffled(d, perm) ==
    [d EXCEPT !.pos_features = Reindex(d.pos_features, perm),
              !.next_moves = Reindex(d.next_moves, perm),
              !.index_within_epoch = 0]

\* an assertion that lets a batch of the whole DataSet through
BatchSizeAccepted_orEqual(d, batch_size) == batch_size <= d.data_size

\* the assertion of line 115
BatchSizeAccepted(d, batch_size) == batch_size < d.data_size

\* DataSet.get_batch, with perm the order np.random.shuffle would leave:
\* the DataSet afterwards and what the call returns
get_batch(d, batch_size, perm) ==
    IF ~BatchSizeAccepted(d, batch_size)
    THEN [ds |-> d, status |-> "error", kind |-> "AssertionError",
          shuffled |-> FALSE, features |-> <<>>, labels |-> <<>>]
    ELSE LET d1    == IF NeedsShuffle(d, batch_size) THEN Shuffled(d, perm) ELSE d
             start == d1.index_within_epoch
             end   == start + batch_size
         IN  [ds |-> [d1 EXCEPT !.index_within_epoch = @ + batch_size],
              status |-> "ok", kind |-> "",
              shuffled |-> NeedsShuffle(d, batch_size),
              features |-> Slice(d1.pos_features, start, end),
              labels |-> Slice(d1.next_moves, start, end)]

\* a DataSet of n one-point positions whose rows can all be told apart
InitBatch ==
    /\ \E n \in 1..MaxBatchRows :
         ds = DataSet([dtype |-> "float32", shape |-> <<n, 1, 1, 1>>,
                       rows |-> [r \in 1..n |-> <<r>>]],
                      [dtype |-> "int16", shape |-> <<n, 1>>,
                       rows |-> [r \in 1..n |-> <<-r>>]],
                      [i \in 1..n |-> 1], FALSE)
    /\ orig = ds
    /\ disk = NoFile
    /\ written = NoWrite
    /\ out = NoCall
    /\ IdleSplit

\* ds.get_batch(batch_size), for batch sizes below, at and above data_size
GetBatch ==
    /\ \E batch_size \in 0..(ds.data_size + 1) :
       \E perm \in IF BatchSizeAccepted(ds, batch_size)
                        /\ NeedsShuffle(ds, batch_size)
                     THEN Permutations(ds.data_size)
                     ELSE {[i \in 1..ds.data_size |-> i]} :
         LET r == get_batch(ds, batch_size, perm)
         IN  /\ ds' = r.ds
             /\ out' = [op |-> "get_batch", batch_size |-> batch_size,
                        status |-> r.status, kind |-> r.kind,
                        shuffled |-> r.shuffled,
                        features |-> r.features, labels |-> r.labels]
    /\ UNCHANGED <<orig, ioVars, splitVars>>

NextBatch == GetBatch

SpecBatch == InitBatch /\ [][NextBatch]_vars

(***************************************************************************)
(* SpecSplit: an example stream and split_test_training.  The stream is    *)
(* the list positions_w_context read through an iterator that has yielded  *)
(* its first `it` examples; example i of the stream is the number i, so    *)
(* that a dropped, repeated or moved example shows.                        *)
(*                                                                         *)
(* A list of examples is held run-length coded: a sequence of runs         *)
(* [lo, hi], each standing for the examples lo, lo + 1, ..., hi, with no   *)
(* run continuing the one before it (so equal lists are equal values).     *)
(* Any list of numbers has exactly one such coding.                        *)
(***************************************************************************)
RunLen(run) == run.hi - run.lo + 1

\* range(1, m + 1) as a list
ListOf(m) == IF m = 0 THEN <<>> ELSE <<[lo |-> 1, hi |-> m]>>

RECURSIVE ListLen(_)
\* len(list)
ListLen(list) ==
    IF list = <<>> THEN 0 ELSE RunLen(Head(list)) + ListLen(Tail(list))

RECURSIVE ListDrop(_, _)
\* list[k:]
ListDrop(list, k) ==
    IF k <= 0 \/ list = <<>> THEN list
    ELSE IF k >= RunLen(Head(list)) THEN ListDrop(Tail(list), k - RunLen(Head(list)))
    ELSE <<[lo |-> Head(list).lo + k, hi |-> Head(list).hi]>> \o Tail(list)

RECURSIVE ListTake(_, _)
\* list[:k]
ListTake(list, k) ==
    IF k <= 0 \/ list = <<>> THEN <<>>
    ELSE IF k >= RunLen(Head(list))
         THEN <<Head(list)>> \o ListTake(Tail(list), k - RunLen(Head(list)))
    ELSE <<[lo |-> Head(list).lo, hi |-> Head(list).lo + k - 1]>>

\* list[from:to], 0 <= from
ListSlice(list, from, to) == ListTake(ListDrop(list, from), to - from)

\* a + b of two lists
ListCat(a, b) ==
    IF a = <<>> THEN b
    ELSE IF b = <<>> THEN a
    ELSE IF a[Len(a)].hi + 1 = b[1].lo
         THEN SubSeq(a, 1, Len(a) - 1)
                \o <<[lo |-> a[Len(a)].lo, hi |-> b[1].hi]>> \o Tail(b)
         ELSE a \o b

RECURSIVE ListSum(_)
\* the lists of a sequence of lists, one after another
ListSum(lists) ==
    IF lists = <<>> THEN <<>> ELSE ListCat(Head(lists), ListSum(Tail(lists)))

\* a take_n that pulls one example more than it returns
take_n_skips(n, list, pos) ==
    [result |-> ListSlice(list, pos, Min(pos + n, ListLen(list))),
     it     |-> Min(pos + n + 1, ListLen(list))]

\* take_n(n, iterator): up to n examples, fewer when the stream ends first
\* (StopIteration is swallowed); `it` is the iterator's position afterwards
take_n(n, list, pos) ==
    [result |-> ListSlice(list, pos, Min(pos + n, ListLen(list))),
     it     |-> Min(pos + n, ListLen(list))]

\* a split that takes half of a small corpus as the test set
SmallTestSize_half(len) == len \div 2

\* line 85: the size of the test set of a small corpus
SmallTestSize(len) == len \div 3

\* an iter_chunks that yields the empty chunk too
Yields_always(next_chunk) == TRUE

\* line 46: iter_chunks yields the chunk unless it is empty
Yields(next_chunk) == next_chunk # <<>>

\* a stream whose examples repeat and do not follow one another
IrregularStream ==
    <<[lo |-> 5, hi |-> 5], [lo |-> 5, hi |-> 5], [lo |-> 1, hi |-> 3],
      [lo |-> 9, hi |-> 9]>>

SplitLengths ==
    (0..MaxSmallLen) \cup {300}
      \cup {desired_test_size + d : d \in {-1, 0, 1}}
      \cup {desired_test_size + k * CHUNK_SIZE + d :
              k \in 1..MaxChunks, d \in {-1, 0, 1}}

Estimates ==
    {0, 2 * desired_test_size - 1, 2 * desired_test_size, 3 * desired_test_size}

InitSplit ==
    /\ \/ \E m \in SplitLengths : positions_w_context = ListOf(m)
       \/ positions_w_context = IrregularStream
    /\ est_num_positions \in Estimates
    /\ it = 0
    /\ test_chunk = <<>>
    /\ training_chunks = <<>>
    /\ pc = "start"
    /\ ds = NoDataSet
    /\ orig = NoDataSet
    /\ disk = NoFile
    /\ written = NoWrite
    /\ out = NoCall

\* split_test_training(positions_w_context, est_num_positions).  In the
\* small branch the one training group is returned whole; in the other the
\* training chunks are a generator that has produced nothing yet
SplitTestTraining ==
    /\ pc = "start"
    /\ IF est_num_positions < 2 * desired_test_size
       THEN LET test_size == SmallTestSize(ListLen(positions_w_context))
            IN  /\ it' = ListLen(positions_w_context)
                /\ test_chunk' = ListSlice(positions_w_context, 0, test_size)
                /\ training_chunks' =
                     <<ListSlice(positions_w_context, test_size,
                                 ListLen(positions_w_context))>>
                /\ pc' = "done"
       ELSE LET t == take_n(desired_test_size, positions_w_context, it)
            IN  /\ it' = t.it
                /\ test_chunk' = t.result
                /\ training_chunks' = <<>>
                /\ pc' = "chunks"
    /\ UNCHANGED <<ds, orig, ioVars, out, positions_w_context, est_num_positions>>

\* one turn of the loop of iter_chunks(CHUNK_SIZE, positions_w_context),
\* run when the consumer asks the generator for its next chunk
NextChunk ==
    /\ pc = "chunks"
    /\ LET t == take_n(CHUNK_SIZE, positions_w_context, it)
       IN  /\ it' = t.it
           /\ IF Yields(t.result)
              THEN /\ training_chunks' = Append(training_chunks, t.result)
                   /\ pc' = "chunks"
              ELSE /\ training_chunks' = training_chunks
                   /\ pc' = "done"
    /\ UNCHANGED <<ds, orig, ioVars, out, positions_w_context, est_num_positions,
                   test_chunk>>

NextSplit == SplitTestTraining \/ NextChunk

SpecSplit == InitSplit /\ [][NextSplit]_vars

(***************************************************************************)
(* Properties of write and read (SpecIO).                                  *)
(***************************************************************************)
Binary(nparray) ==
    \A r \in 1..Len(nparray.rows) : \A c \in 1..Len(nparray.rows[r]) :
        nparray.rows[r][c] \in {0, 1}

\* element-wise: 1 where the element equals 1, 0 elsewhere
Quantized(nparray) ==
    [r \in 1..Len(nparray.rows) |->
        [c \in 1..Len(nparray.rows[r]) |->
            IF nparray.rows[r][c] = 1 THEN 1 ELSE 0]]

\* the last call read, with the compression and packing it was written
\* with, the file write left
ReadBack ==
    /\ out.op = "read"
    /\ written.extra = 0
    /\ out.compression = written.compression
    /\ out.packing = written.packing

SameData ==
    /\ out.status = "ok"
    /\ out.ds.pos_features.rows = ds.pos_features.rows
    /\ out.ds.next_moves.rows = ds.next_moves.rows

\* C1 as stated: for every compression and packing and every DataSet, read
\* of the file write produced returns the features and labels written.
C1_RoundTripEveryDataSet == ReadBack => SameData

\* C1 as amended: read of the file write produced returns the features and
\* labels written under packing 'none', and under 'half' and 'full' when
\* every feature and label element is 0 or 1.
C1_RoundTrip ==
    (ReadBack /\ (written.packing = "none"
                    \/ (Binary(ds.pos_features) /\ Binary(ds.next_moves))))
        => SameData

C1_Witness ==
    /\ ReadBack
    /\ written.packing = "full"
    /\ written.compression = "snappy"
    /\ Binary(ds.pos_features) /\ Binary(ds.next_moves)
    /\ ds.data_size > 8
    /\ 1 \in {ds.pos_features.rows[r][1] : r \in 1..ds.data_size}
    /\ SameData

\* C10: under 'half' and 'full', write then read yields as many elements as
\* were written, element i being 1 if the written element i equals 1 and 0
\* otherwise, whatever the element count.
C10_HalfFullQuantize ==
    (ReadBack /\ written.packing \in {"half", "full"}) =>
        /\ out.status = "ok"
        /\ out.ds.pos_features.rows = Quantized(ds.pos_features)
        /\ out.ds.next_moves.rows = Quantized(ds.next_moves)
        /\ Len(Flat(out.ds.pos_features)) = Len(Flat(ds.pos_features))
        /\ Len(Flat(out.ds.next_moves)) = Len(Flat(ds.next_moves))

C10_Witness ==
    /\ ReadBack
    /\ written.packing = "full"
    /\ Len(Flat(ds.pos_features)) = 13
    /\ 2 \in {ds.pos_features.rows[r][1] : r \in 1..ds.data_size}
    /\ -1 \in {ds.next_moves.rows[r][1] : r \in 1..ds.data_size}
    /\ out.status = "ok"
    /\ out.ds.pos_features.rows = Quantized(ds.pos_features)

\* the bytes the header of the uncompressed stream implies, header included
ImpliedLength(plain, packing) ==
    LET n == I32Value(SubSeq(plain, 1, 4))
        b == I32Value(SubSeq(plain, 5, 8))
        p == I32Value(SubSeq(plain, 9, 12))
    IN  CASE packing = "none" -> 13 + 4 * (n * b * b * p) + 2 * (n * b * b)
          [] packing = "half" -> 13 + n * b * b * p + n * b * b
          [] packing = "full" -> 13 + ((n * b * b * p + 7) \div 8)
                                    + ((n * b * b + 7) \div 8)

TrailingBytes ==
    /\ out.op = "read"
    /\ out.compression \in Compressions
    /\ out.packing \in Packings
    /\ Len(Unwrap(written.compression, disk)) >= 13
    /\ Len(Unwrap(written.compression, disk))
         > ImpliedLength(Unwrap(written.compression, disk), out.packing)

\* C6: for every compression and packing, read returns no DataSet when the
\* uncompressed stream holds a byte after the header and the payload the
\* header implies; where the stream opens, it is the assertion that fails.
C6_TrailingBytesFail ==
    TrailingBytes =>
        /\ out.status = "error"
        /\ out.ds = NoDataSet
        /\ (out.kind \notin {"OSError", "UncompressError"}
              => out.kind = "AssertionError")

C6_Witness ==
    /\ TrailingBytes
    /\ written = [compression |-> "none", packing |-> "none", extra |-> 1]
    /\ out.compression = "none" /\ out.packing = "none"
    /\ out.status = "error" /\ out.kind = "AssertionError"

\* C7: write and read called with an unknown compression or an unknown
\* packing end in an error.
C7_UnknownOptionFatal ==
    (out.op \in {"write", "read"}
       /\ (out.compression \notin Compressions \/ out.packing \notin Packings))
        => out.status = "error"

(***************************************************************************)
(* Properties of get_batch (SpecBatch).                                    *)
(***************************************************************************)
\* rows [from, from + n) of an array, counted from 0
RowsAt(nparray, from, n) ==
    [k \in 1..n |-> nparray.rows[from + k]]

\* the (feature row, label row) pairs of a DataSet, by row
Pairs(d) ==
    [i \in 1..Len(d.pos_features.rows) |->
        <<d.pos_features.rows[i], d.next_moves.rows[i]>>]

\* both arrays of d are the arrays of o indexed by one permutation: the
\* rows of d pair as the rows of o do, every pair as often as in o
SamePermutation(d, o) ==
    /\ Len(d.pos_features.rows) = Len(o.pos_features.rows)
    /\ Len(d.next_moves.rows) = Len(o.next_moves.rows)
    /\ Len(d.pos_features.rows) = Len(d.next_moves.rows)
    /\ LET pd == Pairs(d)
           po == Pairs(o)
       IN  \A i \in 1..Len(pd) :
             Cardinality({k \in 1..Len(pd) : pd[k] = pd[i]})
               = Cardinality({k \in 1..Len(po) : po[k] = pd[i]})

\* C4: a call with batch_size < N returns the batch_size rows
\* [cursor, cursor + batch_size) of one permutation of the data; the data
\* is reshuffled and the cursor reset to 0 before drawing exactly when
\* cursor + batch_size > N; the cursor stays within 0..N.
C4_BatchWithinEpoch ==
    [][(out'.op = "get_batch" /\ out'.batch_size < ds.data_size) =>
        LET n         == ds.data_size
            size      == out'.batch_size
            reshuffle == ds.index_within_epoch + size > n
            cursor    == IF reshuffle THEN 0 ELSE ds.index_within_epoch
        IN  /\ out'.status = "ok"
            /\ out'.shuffled = reshuffle
            /\ ~reshuffle => /\ ds'.pos_features = ds.pos_features
                             /\ ds'.next_moves = ds.next_moves
            /\ SamePermutation(ds', ds)
            /\ cursor + size <= n
            /\ Len(out'.features) = size /\ Len(out'.labels) = size
            /\ out'.features = RowsAt(ds'.pos_features, cursor, size)
            /\ out'.labels = RowsAt(ds'.next_moves, cursor, size)
            /\ ds'.index_within_epoch = cursor + size
            /\ ds'.index_within_epoch >= 0 /\ ds'.index_within_epoch <= n
      ]_vars

C4_Witness ==
    /\ out.op = "get_batch"
    /\ out.status = "ok"
    /\ out.shuffled
    /\ ds.data_size = 4
    /\ out.batch_size = 3
    /\ ds.index_within_epoch = 3
    /\ ds.pos_features # orig.pos_features
    /\ Len(out.features) = 3

\* C5: after any calls of get_batch, row i of the features and row i of
\* the labels are the pair of one row of the DataSet as constructed, by one
\* permutation for all rows; every row of a returned batch is such a pair.
C5_PairingKept ==
    /\ SamePermutation(ds, orig)
    /\ out.op = "get_batch" =>
         /\ Len(out.features) = Len(out.labels)
         /\ \A k \in 1..Len(out.features) :
              \E j \in 1..orig.data_size :
                  /\ out.features[k] = orig.pos_features.rows[j]
                  /\ out.labels[k] = orig.next_moves.rows[j]

C5_Witness ==
    /\ out.op = "get_batch"
    /\ out.shuffled
    /\ Len(out.features) >= 2
    /\ ds.pos_features.rows[1] # orig.pos_features.rows[1]
    /\ ds.next_moves.rows[1] # orig.next_moves.rows[1]

\* C9: a call with batch_size >= N ends in an error, returns no batch and
\* leaves the cursor and both arrays as they were.
C9_BatchSizeRejected ==
    [][(out'.op = "get_batch" /\ out'.batch_size >= ds.data_size) =>
        /\ out'.status = "error"
        /\ out'.features = <<>> /\ out'.labels = <<>>
        /\ ds' = ds
      ]_vars

C9_Witness ==
    /\ out.op = "get_batch"
    /\ out.batch_size = ds.data_size
    /\ out.status = "error"
    /\ ds.index_within_epoch > 0
    /\ ds.pos_features # orig.pos_features

(***************************************************************************)
(* Properties of split_test_training (SpecSplit).                          *)
(***************************************************************************)
LargeBranch == est_num_positions >= 2 * desired_test_size

\* C2: the test set followed by the training groups, in the order they are
\* produced, is the stream in its order: at every moment the examples
\* yielded so far, at the end the whole stream.
C2_SplitReconstructsStream ==
    /\ pc # "start" =>
         ListCat(test_chunk, ListSum(training_chunks))
            = ListSlice(positions_w_context, 0, it)
    /\ pc = "done" =>
         ListCat(test_chunk, ListSum(training_chunks)) = positions_w_context

C2_Witness ==
    /\ pc = "done"
    /\ LargeBranch
    /\ Len(training_chunks) >= 2
    /\ ListLen(training_chunks[Len(training_chunks)]) < CHUNK_SIZE
    /\ ListCat(test_chunk, ListSum(training_chunks)) = positions_w_context

\* the remainder of the stream follows the test set in consecutive chunks
\* of CHUNK_SIZE examples, the last possibly smaller, none empty
ChunksWellFormed ==
    /\ \A i \in 1..Len(training_chunks) :
         /\ ListLen(training_chunks[i]) >= 1
         /\ ListLen(training_chunks[i]) <= CHUNK_SIZE
         /\ i < Len(training_chunks) => ListLen(training_chunks[i]) = CHUNK_SIZE
         /\ training_chunks[i] =
              ListSlice(positions_w_context,
                        ListLen(test_chunk) + (i - 1) * CHUNK_SIZE,
                        ListLen(test_chunk) + i * CHUNK_SIZE)
    /\ pc = "done" =>
         Len(training_chunks) =
            (ListLen(positions_w_context) - ListLen(test_chunk) + CHUNK_SIZE - 1)
               \div CHUNK_SIZE

\* C3 as stated: with an estimate of at least 2 * 10^5 the test set is the
\* first 10^5 examples, whatever the length of the stream, and the rest
\* follows in chunks of CHUNK_SIZE, the last possibly smaller, none empty.
C3_TestSetAlwaysFull ==
    (LargeBranch /\ pc # "start") =>
        /\ ListLen(test_chunk) = desired_test_size
        /\ test_chunk = ListSlice(positions_w_context, 0, desired_test_size)
        /\ ChunksWellFormed

\* C3 as amended: with an estimate of at least 2 * 10^5 the test set is the
\* first min(10^5, M) examples of a stream of M examples, and the rest
\* follows in chunks of CHUNK_SIZE, the last possibly smaller, none empty.
C3_LargeBranchSplit ==
    (LargeBranch /\ pc # "start") =>
        /\ ListLen(test_chunk)
             = Min(desired_test_size, ListLen(positions_w_context))
        /\ test_chunk = ListSlice(positions_w_context, 0, ListLen(test_chunk))
        /\ ChunksWellFormed

C3_Witness ==
    /\ LargeBranch
    /\ pc = "done"
    /\ ListLen(positions_w_context) = desired_test_size + 2 * CHUNK_SIZE
    /\ ListLen(test_chunk) = desired_test_size
    /\ Len(training_chunks) = 2
    /\ ListLen(training_chunks[2]) = CHUNK_SIZE

\* C8: with an estimate below 2 * 10^5 a stream of M examples gives a test
\* set of its first floor(M / 3) examples and one training group of the
\* other M - floor(M / 3).
C8_SmallBranchThirds ==
    (~LargeBranch /\ pc # "start") =>
        LET m == ListLen(positions_w_context)
        IN  /\ pc = "done"
            /\ ListLen(test_chunk) = m \div 3
            /\ test_chunk = ListSlice(positions_w_context, 0, m \div 3)
            /\ Len(training_chunks) = 1
            /\ ListLen(training_chunks[1]) = m - (m \div 3)
            /\ training_chunks[1] = ListSlice(positions_w_context, m \div 3, m)

C8_Witness ==
    /\ ~LargeBranch
    /\ pc = "done"
    /\ ListLen(positions_w_context) = 300
    /\ ListLen(test_chunk) = 100
    /\ Len(training_chunks) = 1
    /\ ListLen(training_chunks[1]) = 200

====
